---- MODULE Spec2Model ----
(***************************************************************************)
(* Swap setup of the XMR/BTC atomic swap: the maker's (Alice's) setup     *)
(* behaviour and per-connection handler, swap/src/protocol/alice/         *)
(* swap_setup.rs.                                                          *)
(*                                                                         *)
(* The handler owns at most one setup task (inbound_stream).  A task is a  *)
(* future that Handler::poll drives; every action below that advances the  *)
(* task is one call of Handler::poll in which the task runs up to its next *)
(* suspension point.  When the task resolves inside such a call, the same  *)
(* call sets keep_alive to No and returns HandlerOutEvent::Completed,      *)
(* which the swarm hands to Behaviour::inject_event.                       *)
(*                                                                         *)
(* Three specifications:                                                   *)
(*   Spec          the behaviour and the handler as the code assembles     *)
(*                 them.  The request receiver of a setup is pushed on     *)
(*                 Handler.events, which Handler::poll never pops, so      *)
(*                 nobody can answer the wallet-snapshot request and the   *)
(*                 task never gets past send_receive.                      *)
(*   SpecSetup     the same, with the wallet-snapshot request answered by  *)
(*                 a holder of the request receiver: the whole setup task. *)
(*   SpecValidate  the task up to the result of validate, for every        *)
(*                 configuration of the maker.                             *)
(***************************************************************************)
EXTENDS Integers, Sequences, FiniteSets, TLC

(***************************************************************************)
(* Bounds of the model.                                                    *)
(***************************************************************************)
MaxAmount == 3      \* bitcoin amounts are 0..MaxAmount
MaxRate == 1        \* rates are 0..MaxRate (XMR per BTC)
MaxBalance == 3     \* monero balances are 0..MaxBalance
MaxSetups == 1      \* inbound substreams negotiated on the connection
ChannelCapacity == 1    \* room of a channel: Channels::new has 100, scaled down
MaxCommands == 2        \* commands the caller of the handle submits
MaxSwarmEvents == 2     \* events the taker's swarm produces
MaxInjected == 3        \* handler events given to the behaviour on its own
MaxNegotiations == 2   \* substreams negotiated on one connection, where tasks are replaced

(***************************************************************************)
(* Constants of the program.                                               *)
(***************************************************************************)
TimeoutSecs == 60           \* Handler.timeout
WalletSnapshotSecs == 5     \* wait for the wallet-snapshot reply
KeepAliveSecs == 5          \* initial KeepAlive::Until(now + 5s)

BtcAmounts == 0..MaxAmount
XmrAmounts == 0..MaxBalance
LockFees == {0, 1}
Peers == {"p1", "p2"}
SwapIds == {"s1", "s2"}

BitcoinNetworks == {"Mainnet", "Testnet"}
MoneroNetworks == {"Mainnet", "Stagenet"}

\* BlockchainNetwork { bitcoin, monero }
BlockchainNetworks == [bitcoin : BitcoinNetworks, monero : MoneroNetworks]

\* env::Config, the two fields the setup reads
EnvConfigs == [bitcoin_network : BitcoinNetworks, monero_network : MoneroNetworks]

\* SpotPriceRequest { btc, blockchain_network }
SpotPriceRequests == [btc : BtcAmounts, blockchain_network : BlockchainNetworks]

\* WalletSnapshot; the addresses and fees are opaque to the setup and left out
\* redeem_address stands for the addresses and fees a snapshot hands to State0::new
Addresses == {"a1", "a2"}
WalletSnapshots == [balance : XmrAmounts, lock_fee : LockFees, redeem_address : Addresses]

\* the outcome of LatestRate::latest_rate(): a Rate or a fetch error
LatestRates == [ok : {TRUE}, rate : 0..MaxRate] \cup {[ok |-> FALSE]}

None == [kind |-> "None"]

(***************************************************************************)
(* enum Error                                                              *)
(***************************************************************************)
ResumeOnlyMode == [kind |-> "ResumeOnlyMode"]
AmountBelowMinimum(min, buy) == [kind |-> "AmountBelowMinimum", min |-> min, buy |-> buy]
AmountAboveMaximum(max, buy) == [kind |-> "AmountAboveMaximum", max |-> max, buy |-> buy]
BalanceTooLow(balance, buy) == [kind |-> "BalanceTooLow", balance |-> balance, buy |-> buy]
LatestRateFetchFailed == [kind |-> "LatestRateFetchFailed"]
SellQuoteCalculationFailed == [kind |-> "SellQuoteCalculationFailed"]
BlockchainNetworkMismatch(cli, asb) == [kind |-> "BlockchainNetworkMismatch", cli |-> cli, asb |-> asb]
Io(source) == [kind |-> "Io", source |-> source]
WalletSnapshotFailed(source) == [kind |-> "WalletSnapshotFailed", source |-> source]
Timeout(seconds) == [kind |-> "Timeout", seconds |-> seconds]

Ok(v) == [ok |-> TRUE, value |-> v]
Err(e) == [ok |-> FALSE, error |-> e]

\* Variant of to_error_response: BalanceTooLow keeps the maker's balance.
to_error_response_leaks_balance(e) ==
    CASE e.kind = "ResumeOnlyMode" -> [kind |-> "NoSwapsAccepted"]
      [] e.kind = "AmountBelowMinimum" ->
            [kind |-> "AmountBelowMinimum", min |-> e.min, buy |-> e.buy]
      [] e.kind = "AmountAboveMaximum" ->
            [kind |-> "AmountAboveMaximum", max |-> e.max, buy |-> e.buy]
      [] e.kind = "BalanceTooLow" ->
            [kind |-> "BalanceTooLow", balance |-> e.balance, buy |-> e.buy]
      [] e.kind = "BlockchainNetworkMismatch" ->
            [kind |-> "BlockchainNetworkMismatch", cli |-> e.cli, asb |-> e.asb]
      [] e.kind \in {"LatestRateFetchFailed", "SellQuoteCalculationFailed",
                     "WalletSnapshotFailed", "Timeout", "Io"} -> [kind |-> "Other"]

\* Variant of to_error_response: the two amounts of AmountAboveMaximum are exchanged.
to_error_response_swaps_amounts(e) ==
    CASE e.kind = "ResumeOnlyMode" -> [kind |-> "NoSwapsAccepted"]
      [] e.kind = "AmountBelowMinimum" ->
            [kind |-> "AmountBelowMinimum", min |-> e.min, buy |-> e.buy]
      [] e.kind = "AmountAboveMaximum" ->
            [kind |-> "AmountAboveMaximum", max |-> e.buy, buy |-> e.max]
      [] e.kind = "BalanceTooLow" -> [kind |-> "BalanceTooLow", buy |-> e.buy]
      [] e.kind = "BlockchainNetworkMismatch" ->
            [kind |-> "BlockchainNetworkMismatch", cli |-> e.cli, asb |-> e.asb]
      [] e.kind \in {"LatestRateFetchFailed", "SellQuoteCalculationFailed",
                     "WalletSnapshotFailed", "Timeout", "Io"} -> [kind |-> "Other"]

(***************************************************************************)
(* Error::to_error_response: the SpotPriceError sent to the taker.         *)
(***************************************************************************)
to_error_response(e) ==
    CASE e.kind = "ResumeOnlyMode" -> [kind |-> "NoSwapsAccepted"]
      [] e.kind = "AmountBelowMinimum" ->
            [kind |-> "AmountBelowMinimum", min |-> e.min, buy |-> e.buy]
      [] e.kind = "AmountAboveMaximum" ->
            [kind |-> "AmountAboveMaximum", max |-> e.max, buy |-> e.buy]
      [] e.kind = "BalanceTooLow" -> [kind |-> "BalanceTooLow", buy |-> e.buy]
      [] e.kind = "BlockchainNetworkMismatch" ->
            [kind |-> "BlockchainNetworkMismatch", cli |-> e.cli, asb |-> e.asb]
      [] e.kind \in {"LatestRateFetchFailed", "SellQuoteCalculationFailed",
                     "WalletSnapshotFailed", "Timeout", "Io"} -> [kind |-> "Other"]

(***************************************************************************)
(* Rate::sell_quote(btc): the XMR amount for btc, or an error.  A rate of  *)
(* zero has no quote.                                                      *)
(***************************************************************************)
sell_quote(rate, btc) ==
    IF rate = 0 THEN [ok |-> FALSE] ELSE [ok |-> TRUE, value |-> rate * btc]

\* Variant of validate: the minimum is compared with <=, so btc = min_buy is refused.
validate_strict_minimum(resume_only, env_config, min_buy, max_buy, latest_rate, request, wallet_snapshot) ==
    IF resume_only THEN Err(ResumeOnlyMode)
    ELSE
    LET blockchain_network == [bitcoin |-> env_config.bitcoin_network,
                               monero |-> env_config.monero_network]
        btc == request.btc
    IN
    IF request.blockchain_network # blockchain_network
    THEN Err(BlockchainNetworkMismatch(request.blockchain_network, blockchain_network))
    ELSE IF btc <= min_buy THEN Err(AmountBelowMinimum(min_buy, btc))
    ELSE IF btc > max_buy THEN Err(AmountAboveMaximum(max_buy, btc))
    ELSE IF ~latest_rate.ok THEN Err(LatestRateFetchFailed)
    ELSE
    LET quote == sell_quote(latest_rate.rate, btc) IN
    IF ~quote.ok THEN Err(SellQuoteCalculationFailed)
    ELSE
    LET xmr == quote.value IN
    IF wallet_snapshot.balance < xmr + wallet_snapshot.lock_fee
    THEN Err(BalanceTooLow(wallet_snapshot.balance, btc))
    ELSE Ok(xmr)

\* Variant of validate: the resume-only flag is looked at after the network and amounts.
validate_resume_only_late(resume_only, env_config, min_buy, max_buy, latest_rate, request, wallet_snapshot) ==
    LET blockchain_network == [bitcoin |-> env_config.bitcoin_network,
                               monero |-> env_config.monero_network]
        btc == request.btc
    IN
    IF request.blockchain_network # blockchain_network
    THEN Err(BlockchainNetworkMismatch(request.blockchain_network, blockchain_network))
    ELSE IF btc < min_buy THEN Err(AmountBelowMinimum(min_buy, btc))
    ELSE IF btc > max_buy THEN Err(AmountAboveMaximum(max_buy, btc))
    ELSE IF resume_only THEN Err(ResumeOnlyMode)
    ELSE IF ~latest_rate.ok THEN Err(LatestRateFetchFailed)
    ELSE
    LET quote == sell_quote(latest_rate.rate, btc) IN
    IF ~quote.ok THEN Err(SellQuoteCalculationFailed)
    ELSE
    LET xmr == quote.value IN
    IF wallet_snapshot.balance < xmr + wallet_snapshot.lock_fee
    THEN Err(BalanceTooLow(wallet_snapshot.balance, btc))
    ELSE Ok(xmr)

(***************************************************************************)
(* The validate block of the setup task: the checks in the order of the    *)
(* code, each returning early with its error.                              *)
(***************************************************************************)
validate(resume_only, env_config, min_buy, max_buy, latest_rate, request, wallet_snapshot) ==
    IF resume_only THEN Err(ResumeOnlyMode)
    ELSE
    LET blockchain_network == [bitcoin |-> env_config.bitcoin_network,
                               monero |-> env_config.monero_network]
        btc == request.btc
    IN
    IF request.blockchain_network # blockchain_network
    THEN Err(BlockchainNetworkMismatch(request.blockchain_network, blockchain_network))
    ELSE IF btc < min_buy THEN Err(AmountBelowMinimum(min_buy, btc))
    ELSE IF btc > max_buy THEN Err(AmountAboveMaximum(max_buy, btc))
    ELSE IF ~latest_rate.ok THEN Err(LatestRateFetchFailed)
    ELSE
    LET quote == sell_quote(latest_rate.rate, btc) IN
    IF ~quote.ok THEN Err(SellQuoteCalculationFailed)
    ELSE
    LET xmr == quote.value IN
    IF wallet_snapshot.balance < xmr + wallet_snapshot.lock_fee
    THEN Err(BalanceTooLow(wallet_snapshot.balance, btc))
    ELSE Ok(xmr)


(***************************************************************************)
(* enum OutEvent of the behaviour and enum HandlerOutEvent of the handler. *)
(* A request receiver is named by the number of the setup whose channel it *)
(* belongs to.                                                             *)
(***************************************************************************)
OutInitiated(receiver) == [type |-> "Initiated", send_wallet_snapshot |-> receiver]
OutCompleted(peer, swap_id, state3) ==
    [type |-> "Completed", peer_id |-> peer, swap_id |-> swap_id, state3 |-> state3]
OutError(peer, error) == [type |-> "Error", peer_id |-> peer, error |-> error]

HandlerInitiated(receiver) == [type |-> "Initiated", receiver |-> receiver]
HandlerCompleted(result) == [type |-> "Completed", result |-> result]

(***************************************************************************)
(* KeepAlive                                                               *)
(***************************************************************************)
KeepAliveUntil(secs) == [kind |-> "Until", after |-> secs]
KeepAliveYes == [kind |-> "Yes"]
KeepAliveNo == [kind |-> "No"]

(***************************************************************************)
(* The operations of the setup task on its substream, in order.            *)
(***************************************************************************)
Read(msg) == [op |-> "read", msg |-> msg]
Write(msg) == [op |-> "write", msg |-> msg]
WriteResponse(response) == [op |-> "write", msg |-> "SpotPriceResponse", response |-> response]
ResponseXmr(xmr) == [kind |-> "Xmr", xmr |-> xmr]
ResponseError(e) == [kind |-> "Error", error |-> e]

VARIABLES
    behaviour,      \* Behaviour: events, min_buy, max_buy, env_config, resume_only
    handler,        \* Handler of the connection: inbound_stream, events, keep_alive, ...
    peer_id,        \* the peer of the connection the handler belongs to
    substream,      \* the substream of the current setup: open, ops
    app_events,     \* what Behaviour::poll has returned to the swarm owner, in order
    injected,       \* history: the setup and type of every event given to inject_event
    observed,       \* history of the current setup: validation result, snapshot, guard
    setups,         \* inbound substreams negotiated so far
    panicked,       \* the handler's task was polled after it completed
    replaced,       \* history: the setups whose task was replaced while in flight
    conversion,     \* an Error and the ErrorResponse to_error_response gave for it
    channels,       \* taker: the eleven channels between EventLoopHandle and EventLoop
    event_loop,     \* taker: EventLoop::run, at its select or suspended in a send
    handle,         \* taker: the caller of EventLoopHandle and what it has received
    swarm           \* taker: connected peers, the calls made on the swarm, its events

vars == <<behaviour, handler, peer_id, substream, app_events, injected, observed,
          setups, panicked, replaced, conversion, channels, event_loop, handle, swarm>>

\* what the maker's handler and behaviour never touch
aside == <<conversion, channels, event_loop, handle, swarm>>

(***************************************************************************)
(* Behaviour::new and Handler::new (through Behaviour::new_handler).       *)
(***************************************************************************)
BehaviourNew(min_buy, max_buy, env_config, resume_only) ==
    [events |-> <<>>, min_buy |-> min_buy, max_buy |-> max_buy,
     env_config |-> env_config, resume_only |-> resume_only]

HandlerNew(min_buy, max_buy, env_config, resume_only) ==
    [inbound_stream |-> None, events |-> <<>>,
     min_buy |-> min_buy, max_buy |-> max_buy,
     env_config |-> env_config, resume_only |-> resume_only,
     timeout |-> TimeoutSecs,
     keep_alive |-> KeepAliveUntil(KeepAliveSecs)]

new_handler(b) == HandlerNew(b.min_buy, b.max_buy, b.env_config, b.resume_only)

NoSubstream == [open |-> FALSE, ops |-> <<>>]
NothingObserved == [validated |-> None, requests |-> <<>>, wallet |-> "none", guard |-> FALSE]

\* no Error has been converted
NoConversion == [error |-> None, response |-> None]

(***************************************************************************)
(* The taker (bob/event_loop.rs).  EventLoop::new makes eleven bounded     *)
(* channels, Channels::new each: seven carry commands from the             *)
(* EventLoopHandle to the loop, four carry swarm events from the loop to   *)
(* the handle.  A message is the record sent, with the number of the       *)
(* command or swarm event it belongs to.                                   *)
(***************************************************************************)
CommandChannels == {"add_address", "dial_alice", "request_amounts",
                    "send_msg0", "send_msg1", "send_msg2", "send_msg3"}
EventChannels == {"conn_established", "msg0", "msg1", "msg2"}
ChannelNames == CommandChannels \cup EventChannels

ChannelsNew == [c \in ChannelNames |-> <<>>]

\* EventLoop::run at its select!, or suspended in the send of msg on channel c
Selecting == [pc |-> "select"]
Sending(c, msg) == [pc |-> "send", channel |-> c, msg |-> msg]

NoEvent == [kind |-> "none"]
NoCall == [method |-> "none", seq |-> 0, result |-> "none"]

\* the caller of the handle is between two calls; nothing submitted, no dial returned
HandleNew == [pc |-> "idle", submitted |-> 0, dial_returned |-> None]

\* the swarm: not connected to anyone, no event produced, no method called
SwarmNew == [connected |-> {}, produced |-> 0, last_event |-> NoEvent,
             last_call |-> NoCall]

InitBut(min_buy, max_buy, env_config, resume_only, peer) ==
    /\ behaviour = BehaviourNew(min_buy, max_buy, env_config, resume_only)
    /\ handler = new_handler(behaviour)
    /\ peer_id = peer
    /\ substream = NoSubstream
    /\ app_events = <<>>
    /\ injected = <<>>
    /\ observed = NothingObserved
    /\ setups = 0
    /\ panicked = FALSE
    /\ replaced = <<>>
    /\ channels = ChannelsNew
    /\ event_loop = Selecting
    /\ handle = HandleNew
    /\ swarm = SwarmNew

InitWith(min_buy, max_buy, env_config, resume_only, peer) ==
    /\ InitBut(min_buy, max_buy, env_config, resume_only, peer)
    /\ conversion = NoConversion

\* The maker of the setup runs: buys between 1 and MaxAmount - 1 on testnet.
TestnetConfig == [bitcoin_network |-> "Testnet", monero_network |-> "Stagenet"]

Init ==
    \E resume_only \in BOOLEAN, peer \in Peers :
        InitWith(1, MaxAmount - 1, TestnetConfig, resume_only, peer)

\* Variant of inject_event: a failed setup is not surfaced.
inject_event_drops_errors(b, peer, event) ==
    CASE event.type = "Initiated" ->
            [b EXCEPT !.events = Append(@, OutInitiated(event.receiver))]
      [] event.type = "Completed" /\ event.result.ok ->
            [b EXCEPT !.events = Append(@, OutCompleted(peer, event.result.value.swap_id,
                                                         event.result.value.state3))]
      [] event.type = "Completed" /\ ~event.result.ok -> b

(***************************************************************************)
(* Behaviour::inject_event: one OutEvent pushed for every HandlerOutEvent. *)
(***************************************************************************)
inject_event(b, peer, event) ==
    CASE event.type = "Initiated" ->
            [b EXCEPT !.events = Append(@, OutInitiated(event.receiver))]
      [] event.type = "Completed" /\ event.result.ok ->
            [b EXCEPT !.events = Append(@, OutCompleted(peer, event.result.value.swap_id,
                                                         event.result.value.state3))]
      [] event.type = "Completed" /\ ~event.result.ok ->
            [b EXCEPT !.events = Append(@, OutError(peer, event.result.error))]

\* Variant of BehaviourPoll: the newest event is returned first.
BehaviourPollNewest ==
    /\ behaviour.events # <<>>
    /\ app_events' = Append(app_events, behaviour.events[Len(behaviour.events)])
    /\ behaviour' = [behaviour EXCEPT !.events = SubSeq(@, 1, Len(@) - 1)]
    /\ UNCHANGED <<handler, peer_id, substream, injected, observed, setups, panicked,
                   replaced, aside>>

(***************************************************************************)
(* Behaviour::poll: pops the oldest event, Pending (no step) when empty.   *)
(***************************************************************************)
BehaviourPoll ==
    /\ behaviour.events # <<>>
    /\ app_events' = Append(app_events, Head(behaviour.events))
    /\ behaviour' = [behaviour EXCEPT !.events = Tail(@)]
    /\ UNCHANGED <<handler, peer_id, substream, injected, observed, setups, panicked,
                   replaced, aside>>

(***************************************************************************)
(* Handler::inject_fully_negotiated_inbound.  The task it stores replaces  *)
(* whatever inbound_stream held; the substream of a replaced task is       *)
(* dropped with it.                                                        *)
(***************************************************************************)
NewTask(h, n, latest_rate) ==
    [kind |-> "Some", pc |-> "read_request", setup |-> n,
     resume_only |-> h.resume_only, min_buy |-> h.min_buy, max_buy |-> h.max_buy,
     latest_rate |-> latest_rate, env_config |-> h.env_config]

\* Variant of inject_fully_negotiated_inbound: a task still in flight is kept.
inject_fully_negotiated_inbound_keeps_task(h, n, latest_rate) ==
    [h EXCEPT !.keep_alive = KeepAliveYes,
              !.inbound_stream = IF @.kind # "None" /\ @.pc # "completed"
                                 THEN @ ELSE NewTask(h, n, latest_rate),
              !.events = Append(@, HandlerInitiated(n))]

inject_fully_negotiated_inbound(h, n, latest_rate) ==
    [h EXCEPT !.keep_alive = KeepAliveYes,
              !.inbound_stream = NewTask(h, n, latest_rate),
              !.events = Append(@, HandlerInitiated(n))]

\* the task inbound_stream holds has not resolved: the assignment drops it
Replaces(h) == h.inbound_stream.kind # "None" /\ h.inbound_stream.pc # "completed"

\* the swarm negotiates the next inbound substream, while fewer than limit were
NegotiateUpTo(limit) ==
    /\ ~panicked
    /\ setups < limit
    /\ \E latest_rate \in LatestRates :
          handler' = inject_fully_negotiated_inbound(handler, setups + 1, latest_rate)
    /\ setups' = setups + 1
    /\ substream' = [open |-> TRUE, ops |-> <<>>]
    /\ observed' = NothingObserved
    /\ replaced' = IF Replaces(handler)
                   THEN Append(replaced, [setup |-> handler.inbound_stream.setup,
                                          substream_open |-> FALSE])
                   ELSE replaced
    /\ UNCHANGED <<behaviour, peer_id, app_events, injected, panicked, aside>>

Negotiate == NegotiateUpTo(MaxSetups)

(***************************************************************************)
(* Handler::poll, the branch taken when the task resolves in this call:    *)
(* keep_alive becomes No and Completed(result) goes to the behaviour.  The *)
(* finished future stays in inbound_stream; its substream is dropped.      *)
(***************************************************************************)
task == handler.inbound_stream

InFlight == ~panicked /\ task.kind # "None" /\ task.pc # "completed"

At(pc) == ~panicked /\ task.kind # "None" /\ task.pc = pc

\* Variant of poll_ready: keep_alive is lowered only when the setup succeeded.
poll_ready_keeps_alive_on_error(h, result) ==
    [h EXCEPT !.keep_alive = IF result.ok THEN KeepAliveNo ELSE @,
              !.inbound_stream = [kind |-> "Some", pc |-> "completed", setup |-> @.setup,
                                  result |-> result]]

poll_ready(h, result) ==
    [h EXCEPT !.keep_alive = KeepAliveNo,
              !.inbound_stream = [kind |-> "Some", pc |-> "completed", setup |-> @.setup,
                                  result |-> result]]

Resolve(result) ==
    /\ handler' = poll_ready(handler, result)
    /\ behaviour' = inject_event(behaviour, peer_id, HandlerCompleted(result))
    /\ injected' = Append(injected, [setup |-> task.setup, type |-> "Completed"])
    /\ UNCHANGED <<peer_id, app_events, setups, panicked, replaced, aside>>

\* the task moves to its next suspension point; Handler::poll returns Pending
Continue(next) ==
    /\ handler' = [handler EXCEPT !.inbound_stream = next]
    /\ UNCHANGED <<behaviour, peer_id, app_events, injected, setups, panicked,
                   replaced, aside>>

\* the substream after one more operation of the task, and after the task dropped it
Did(op) == [substream EXCEPT !.ops = Append(@, op)]
Dropped(s) == [s EXCEPT !.open = FALSE]


\* Variant of ReadRequest: the snapshot is requested for the maker's minimum.
ReadRequestAsksMinimum ==
    /\ At("read_request")
    /\ \E request \in SpotPriceRequests :
          /\ Continue([kind |-> "Some", pc |-> "wallet_snapshot", setup |-> task.setup,
                       resume_only |-> task.resume_only, min_buy |-> task.min_buy,
                       max_buy |-> task.max_buy, latest_rate |-> task.latest_rate,
                       env_config |-> task.env_config, request |-> request])
          /\ observed' = [observed EXCEPT !.requests = Append(@, task.min_buy),
                                          !.wallet = "requested"]
    /\ substream' = Did(Read("SpotPriceRequest"))

(***************************************************************************)
(* The setup task, from the SpotPriceRequest to the wallet snapshot.       *)
(***************************************************************************)
ReadRequest ==
    /\ At("read_request")
    /\ \E request \in SpotPriceRequests :
          /\ Continue([kind |-> "Some", pc |-> "wallet_snapshot", setup |-> task.setup,
                       resume_only |-> task.resume_only, min_buy |-> task.min_buy,
                       max_buy |-> task.max_buy, latest_rate |-> task.latest_rate,
                       env_config |-> task.env_config, request |-> request])
          /\ observed' = [observed EXCEPT !.requests = Append(@, request.btc),
                                          !.wallet = "requested"]
    /\ substream' = Did(Read("SpotPriceRequest"))

ReadRequestFail ==
    /\ At("read_request")
    /\ Resolve(Err(Io("read_request")))
    /\ substream' = Dropped(substream)
    /\ UNCHANGED observed

\* Variant of WalletSnapshotTimeout: the missing reply is reported as the task's timeout.
WalletSnapshotTimeoutAsTimeout ==
    /\ At("wallet_snapshot")
    /\ Resolve(Err(Timeout(WalletSnapshotSecs)))
    /\ substream' = Dropped(substream)
    /\ observed' = [observed EXCEPT !.wallet = "failed"]

\* send_receive gives up after the wait of the channel: no reply came
WalletSnapshotTimeout ==
    /\ At("wallet_snapshot")
    /\ Resolve(Err(WalletSnapshotFailed("timeout")))
    /\ substream' = Dropped(substream)
    /\ observed' = [observed EXCEPT !.wallet = "failed"]

\* Variant of GuardTimeout: the timeout is reported to the taker before the task ends.
GuardTimeoutWritesError ==
    /\ InFlight
    /\ Resolve(Err(Timeout(handler.timeout)))
    /\ substream' = Dropped(Did(WriteResponse(ResponseError(
                                    to_error_response(Timeout(handler.timeout))))))
    /\ observed' = [observed EXCEPT !.guard = TRUE]

(***************************************************************************)
(* tokio::time::timeout around the task: the guard fires while the task is *)
(* suspended, the task is dropped and the result is Timeout.               *)
(***************************************************************************)
GuardTimeout ==
    /\ InFlight
    /\ Resolve(Err(Timeout(handler.timeout)))
    /\ substream' = Dropped(substream)
    /\ observed' = [observed EXCEPT !.guard = TRUE]

(***************************************************************************)
(* Handler::poll once more after the task has completed: inbound_stream    *)
(* still holds the finished future (poll does not put None back), and      *)
(* polling a finished async block panics.  Nothing is emitted.             *)
(***************************************************************************)
PollCompleted ==
    /\ At("completed")
    /\ panicked' = TRUE
    /\ UNCHANGED <<behaviour, handler, peer_id, substream, app_events, injected,
                   observed, setups, replaced, aside>>

\* Handler::poll has no branch that pops Handler.events: Initiated stays there.
Next ==
    \/ Negotiate
    \/ ReadRequest
    \/ ReadRequestFail
    \/ WalletSnapshotTimeout
    \/ GuardTimeout
    \/ PollCompleted
    \/ BehaviourPoll

Spec == Init /\ [][Next]_vars

\* The same handler on a connection where the peer opens several substreams.
Renegotiate == NegotiateUpTo(MaxNegotiations)

NextReplace ==
    \/ Renegotiate
    \/ ReadRequest
    \/ ReadRequestFail
    \/ WalletSnapshotTimeout
    \/ GuardTimeout
    \/ PollCompleted
    \/ BehaviourPoll

SpecReplace == Init /\ [][NextReplace]_vars


(***************************************************************************)
(* The rest of the setup task.  It runs only once send_receive has         *)
(* returned a wallet snapshot, that is, once a holder of the request       *)
(* receiver has answered; these actions are part of SpecSetup only.        *)
(***************************************************************************)
\* Variant of WalletSnapshotReply: validate asks the rate source again.
WalletSnapshotReplyResamples ==
    /\ At("wallet_snapshot")
    /\ \E wallet_snapshot \in WalletSnapshots :
          LET validated == validate(task.resume_only, task.env_config, task.min_buy,
                                    task.max_buy, handler.latest_rate, task.request,
                                    wallet_snapshot)
          IN
          /\ Continue([kind |-> "Some",
                       pc |-> IF validated.ok THEN "write_xmr" ELSE "write_error",
                       setup |-> task.setup, env_config |-> task.env_config,
                       latest_rate |-> task.latest_rate, request |-> task.request,
                       wallet_snapshot |-> wallet_snapshot, validated |-> validated])
          /\ observed' = [observed EXCEPT !.wallet = "replied", !.validated = validated]
    /\ UNCHANGED substream

WalletSnapshotReply ==
    /\ At("wallet_snapshot")
    /\ \E wallet_snapshot \in WalletSnapshots :
          LET validated == validate(task.resume_only, task.env_config, task.min_buy,
                                    task.max_buy, task.latest_rate, task.request,
                                    wallet_snapshot)
          IN
          /\ Continue([kind |-> "Some",
                       pc |-> IF validated.ok THEN "write_xmr" ELSE "write_error",
                       setup |-> task.setup, env_config |-> task.env_config,
                       latest_rate |-> task.latest_rate, request |-> task.request,
                       wallet_snapshot |-> wallet_snapshot, validated |-> validated])
          /\ observed' = [observed EXCEPT !.wallet = "replied", !.validated = validated]
    /\ UNCHANGED substream

\* the responder is dropped without an answer: send_receive fails at once
WalletSnapshotDropped ==
    /\ At("wallet_snapshot")
    /\ Resolve(Err(WalletSnapshotFailed("closed")))
    /\ substream' = Dropped(substream)
    /\ observed' = [observed EXCEPT !.wallet = "failed"]

\* State0::new(btc, xmr, env_config, redeem_address, punish_address, fees, rng)
State0New(btc, xmr, env_config, redeem_address) ==
    [btc |-> btc, xmr |-> xmr, redeem_address |-> redeem_address]

WriteXmr ==
    /\ At("write_xmr")
    /\ LET xmr == task.validated.value IN
          /\ substream' = Did(WriteResponse(ResponseXmr(xmr)))
          /\ Continue([kind |-> "Some", pc |-> "read_m0", setup |-> task.setup,
                       state0 |-> State0New(task.request.btc, xmr, task.env_config,
                                            task.wallet_snapshot.redeem_address)])
    /\ UNCHANGED observed

WriteXmrFail ==
    /\ At("write_xmr")
    /\ Resolve(Err(Io("write_xmr")))
    /\ substream' = Dropped(substream)
    /\ UNCHANGED observed

\* Variant of WriteError: every validation failure is sent as the opaque Other.
WriteErrorOpaque ==
    /\ At("write_error")
    /\ LET e == task.validated.error IN
          /\ substream' = Dropped(Did(WriteResponse(ResponseError([kind |-> "Other"]))))
          /\ Resolve(Err(e))
    /\ UNCHANGED observed

WriteError ==
    /\ At("write_error")
    /\ LET e == task.validated.error IN
          /\ substream' = Dropped(Did(WriteResponse(ResponseError(to_error_response(e)))))
          /\ Resolve(Err(e))
    /\ UNCHANGED observed

\* Variant of WriteErrorFail: a failed write still ends the setup with the validation error.
WriteErrorFailKeepsError ==
    /\ At("write_error")
    /\ Resolve(Err(task.validated.error))
    /\ substream' = Dropped(substream)
    /\ UNCHANGED observed

WriteErrorFail ==
    /\ At("write_error")
    /\ Resolve(Err(Io("write_error")))
    /\ substream' = Dropped(substream)
    /\ UNCHANGED observed

(***************************************************************************)
(* M0 .. M4.  A message that was read may still be refused by the state's  *)
(* receive; Message0 carries the swap id.                                  *)
(***************************************************************************)
Messages0 == [swap_id : SwapIds, valid : BOOLEAN]

ReadMessage0 ==
    /\ At("read_m0")
    /\ \E message0 \in Messages0 :
          IF message0.valid
          THEN /\ Continue([kind |-> "Some", pc |-> "write_m1", setup |-> task.setup,
                            swap_id |-> message0.swap_id, state1 |-> task.state0])
               /\ substream' = Did(Read("Message0"))
          ELSE /\ Resolve(Err(Io("receive_m0")))
               /\ substream' = Dropped(Did(Read("Message0")))
    /\ UNCHANGED observed

\* Variant of ReadMessage0Fail: the failure is reported to the taker as an error response.
ReadMessage0FailReported ==
    /\ At("read_m0")
    /\ Resolve(Err(Io("read_m0")))
    /\ substream' = Dropped(Did(WriteResponse(ResponseError(
                                    to_error_response(Io("read_m0"))))))
    /\ UNCHANGED observed

ReadMessage0Fail ==
    /\ At("read_m0")
    /\ Resolve(Err(Io("read_m0")))
    /\ substream' = Dropped(substream)
    /\ UNCHANGED observed

WriteMessage1 ==
    /\ At("write_m1")
    /\ substream' = Did(Write("Message1"))
    /\ Continue([task EXCEPT !.pc = "read_m2"])
    /\ UNCHANGED observed

WriteMessage1Fail ==
    /\ At("write_m1")
    /\ Resolve(Err(Io("write_m1")))
    /\ substream' = Dropped(substream)
    /\ UNCHANGED observed

ReadMessage2 ==
    /\ At("read_m2")
    /\ \E valid \in BOOLEAN :
          IF valid
          THEN /\ Continue([kind |-> "Some", pc |-> "write_m3", setup |-> task.setup,
                            swap_id |-> task.swap_id, state2 |-> task.state1])
               /\ substream' = Did(Read("Message2"))
          ELSE /\ Resolve(Err(Io("receive_m2")))
               /\ substream' = Dropped(Did(Read("Message2")))
    /\ UNCHANGED observed

ReadMessage2Fail ==
    /\ At("read_m2")
    /\ Resolve(Err(Io("read_m2")))
    /\ substream' = Dropped(substream)
    /\ UNCHANGED observed

\* Variant of WriteMessage3: the task goes on to read Message4 without writing Message3.
WriteMessage3Skipped ==
    /\ At("write_m3")
    /\ Continue([task EXCEPT !.pc = "read_m4"])
    /\ UNCHANGED <<substream, observed>>

WriteMessage3 ==
    /\ At("write_m3")
    /\ substream' = Did(Write("Message3"))
    /\ Continue([task EXCEPT !.pc = "read_m4"])
    /\ UNCHANGED observed

WriteMessage3Fail ==
    /\ At("write_m3")
    /\ Resolve(Err(Io("write_m3")))
    /\ substream' = Dropped(substream)
    /\ UNCHANGED observed

ReadMessage4 ==
    /\ At("read_m4")
    /\ \E valid \in BOOLEAN :
          /\ IF valid
             THEN Resolve(Ok([swap_id |-> task.swap_id, state3 |-> task.state2]))
             ELSE Resolve(Err(Io("receive_m4")))
          /\ substream' = Dropped(Did(Read("Message4")))
    /\ UNCHANGED observed

ReadMessage4Fail ==
    /\ At("read_m4")
    /\ Resolve(Err(Io("read_m4")))
    /\ substream' = Dropped(substream)
    /\ UNCHANGED observed

(***************************************************************************)
(* The setup with its wallet-snapshot request answered.                    *)
(***************************************************************************)
NextSetup ==
    \/ Next
    \/ WalletSnapshotReply
    \/ WalletSnapshotDropped
    \/ WriteXmr
    \/ WriteXmrFail
    \/ WriteError
    \/ WriteErrorFail
    \/ ReadMessage0
    \/ ReadMessage0Fail
    \/ WriteMessage1
    \/ WriteMessage1Fail
    \/ ReadMessage2
    \/ ReadMessage2Fail
    \/ WriteMessage3
    \/ WriteMessage3Fail
    \/ ReadMessage4
    \/ ReadMessage4Fail

SpecSetup == Init /\ [][NextSetup]_vars


(***************************************************************************)
(* The validation alone, for every configuration of the maker: the task is *)
(* run up to the result of validate.                                       *)
(***************************************************************************)
InitValidate ==
    \E resume_only \in BOOLEAN, min_buy \in BtcAmounts, max_buy \in BtcAmounts,
       env_config \in EnvConfigs :
        InitWith(min_buy, max_buy, env_config, resume_only, "p1")

NextValidate ==
    \/ Negotiate
    \/ ReadRequest
    \/ WalletSnapshotReply

SpecValidate == InitValidate /\ [][NextValidate]_vars


(***************************************************************************)
(* The rate source.  Handler.latest_rate is the handler's clone of the     *)
(* LatestRate capability; here the handler record holds, under that name,  *)
(* what self.latest_rate.latest_rate() returns if called now.  The source  *)
(* moves on its own at any time; inject_fully_negotiated_inbound calls it  *)
(* once.  The task is run up to the SpotPriceResponse.                     *)
(***************************************************************************)
WithRateSource(h, rate) == ("latest_rate" :> rate) @@ h

InitRate ==
    \E resume_only \in BOOLEAN, rate \in LatestRates :
        /\ behaviour = BehaviourNew(1, MaxAmount - 1, TestnetConfig, resume_only)
        /\ handler = WithRateSource(new_handler(behaviour), rate)
        /\ peer_id = "p1"
        /\ substream = NoSubstream
        /\ app_events = <<>>
        /\ injected = <<>>
        /\ observed = NothingObserved
        /\ setups = 0
        /\ panicked = FALSE
        /\ replaced = <<>>
        /\ conversion = NoConversion
        /\ channels = ChannelsNew
        /\ event_loop = Selecting
        /\ handle = HandleNew
        /\ swarm = SwarmNew

\* the rate source reports another rate, or starts or stops failing
RateChanges ==
    /\ \E rate \in LatestRates \ {handler.latest_rate} :
          handler' = [handler EXCEPT !.latest_rate = rate]
    /\ UNCHANGED <<behaviour, peer_id, substream, app_events, injected, observed, setups,
                   panicked, replaced, aside>>

\* inject_fully_negotiated_inbound, with `self.latest_rate.latest_rate()` read off the source
NegotiateSampled ==
    /\ ~panicked
    /\ setups < MaxSetups
    /\ handler' = inject_fully_negotiated_inbound(handler, setups + 1, handler.latest_rate)
    /\ setups' = setups + 1
    /\ substream' = [open |-> TRUE, ops |-> <<>>]
    /\ observed' = NothingObserved
    /\ replaced' = IF Replaces(handler)
                   THEN Append(replaced, [setup |-> handler.inbound_stream.setup,
                                          substream_open |-> FALSE])
                   ELSE replaced
    /\ UNCHANGED <<behaviour, peer_id, app_events, injected, panicked, aside>>

NextRate ==
    \/ NegotiateSampled
    \/ RateChanges
    \/ ReadRequest
    \/ WalletSnapshotReply
    \/ WriteXmr
    \/ WriteError

SpecRate == InitRate /\ [][NextRate]_vars

(***************************************************************************)
(* Error::to_error_response on its own: every value of enum Error, over    *)
(* the amounts, networks, failure sources and timeouts of the model, is    *)
(* converted once.                                                         *)
(***************************************************************************)
IoSources == {"read_request", "write_xmr", "write_error", "read_m0", "receive_m0",
              "write_m1", "read_m2", "receive_m2", "write_m3", "read_m4", "receive_m4"}
SnapshotFailures == {"timeout", "closed"}
TimeoutValues == {TimeoutSecs, WalletSnapshotSecs}

Errors ==
    {ResumeOnlyMode, LatestRateFetchFailed, SellQuoteCalculationFailed}
    \cup {AmountBelowMinimum(min, buy) : min \in BtcAmounts, buy \in BtcAmounts}
    \cup {AmountAboveMaximum(max, buy) : max \in BtcAmounts, buy \in BtcAmounts}
    \cup {BalanceTooLow(balance, buy) : balance \in XmrAmounts, buy \in BtcAmounts}
    \cup {BlockchainNetworkMismatch(cli, asb) : cli \in BlockchainNetworks,
                                                asb \in BlockchainNetworks}
    \cup {Io(source) : source \in IoSources}
    \cup {WalletSnapshotFailed(source) : source \in SnapshotFailures}
    \cup {Timeout(seconds) : seconds \in TimeoutValues}

InitConvert ==
    /\ InitBut(1, MaxAmount - 1, TestnetConfig, FALSE, "p1")
    /\ \E e \in Errors : conversion = [error |-> e, response |-> None]

ToErrorResponse ==
    /\ conversion.response = None
    /\ conversion' = [conversion EXCEPT !.response = to_error_response(conversion.error)]
    /\ UNCHANGED <<behaviour, handler, peer_id, substream, app_events, injected, observed,
                   setups, panicked, replaced, channels, event_loop, handle, swarm>>

NextConvert == ToErrorResponse

SpecConvert == InitConvert /\ [][NextConvert]_vars

(***************************************************************************)
(* The behaviour on its own: the swarm gives it the events of the handlers *)
(* of its connections (inject_event) and polls it, in any order.           *)
(***************************************************************************)
\* the events the handler of the connection to peer can emit, for its n-th event
HandlerOutEvents(n) ==
    {HandlerInitiated(n),
     HandlerCompleted(Ok([swap_id |-> "s1", state3 |-> [btc |-> 1, xmr |-> 1, redeem_address |-> "a1"]])),
     HandlerCompleted(Err(ResumeOnlyMode)),
     HandlerCompleted(Err(Timeout(TimeoutSecs)))}

InjectEvent ==
    /\ Len(injected) < MaxInjected
    /\ \E peer \in Peers, event \in HandlerOutEvents(Len(injected) + 1) :
          /\ behaviour' = inject_event(behaviour, peer, event)
          /\ injected' = Append(injected, [setup |-> Len(injected) + 1,
                                           type |-> event.type,
                                           peer_id |-> peer, event |-> event])
    /\ UNCHANGED <<handler, peer_id, substream, app_events, observed, setups, panicked,
                   replaced, aside>>

\* Behaviour::poll with no event queued: Poll::Pending
BehaviourPollPending ==
    /\ behaviour.events = <<>>
    /\ UNCHANGED vars

NextQueue ==
    \/ InjectEvent
    \/ BehaviourPoll
    \/ BehaviourPollPending

SpecQueue == Init /\ [][NextQueue]_vars

\* the maker the taker swaps with: every command but dial is addressed to it
Alice == "p1"

(***************************************************************************)
(* The taker: EventLoopHandle and EventLoop::run (bob/event_loop.rs).      *)
(*                                                                         *)
(* One caller uses the handle, one call after the other.  A Sender::send   *)
(* on a channel with room puts the message and returns; on a full channel  *)
(* it suspends the sender until there is room.  Receiver::recv / next take *)
(* the oldest message.  EventLoop::run is one select! over the swarm and   *)
(* the seven command receivers; select! takes any branch that is ready.    *)
(***************************************************************************)
\* what the taker never touches
maker == <<behaviour, handler, peer_id, substream, app_events, injected, observed,
           setups, panicked, replaced, conversion>>

HasRoom(chs, c) == Len(chs[c]) < ChannelCapacity
Put(chs, c, msg) == [chs EXCEPT ![c] = Append(@, msg)]
Take(chs, c) == [chs EXCEPT ![c] = Tail(@)]

\* PeerTracker::is_connected of the swarm's behaviour
is_connected(sw, p) == p \in sw.connected

(***************************************************************************)
(* EventLoopHandle.  The n-th command submitted carries seq n.             *)
(***************************************************************************)
\* the handle after Sender::send has returned Ok in method
Sent(h, method, msg) ==
    IF method = "dial"
    THEN [pc |-> "dial_recv", method |-> method, msg |-> msg,
          submitted |-> msg.seq, dial_returned |-> h.dial_returned]
    ELSE [pc |-> "idle", submitted |-> msg.seq, dial_returned |-> h.dial_returned]

\* Variant of HandleSend: a command that finds its channel full is dropped.
HandleSendDrops(method, c, p) ==
    /\ handle.pc = "idle"
    /\ handle.submitted < MaxCommands
    /\ LET msg == [peer_id |-> p, seq |-> handle.submitted + 1] IN
          /\ channels' = IF HasRoom(channels, c) THEN Put(channels, c, msg) ELSE channels
          /\ handle' = Sent(handle, method, msg)
    /\ UNCHANGED <<event_loop, swarm, maker>>

\* `self.<c>.send(..).await?` of a handle method
HandleSend(method, c, p) ==
    /\ handle.pc = "idle"
    /\ handle.submitted < MaxCommands
    /\ LET msg == [peer_id |-> p, seq |-> handle.submitted + 1] IN
          IF HasRoom(channels, c)
          THEN /\ channels' = Put(channels, c, msg)
               /\ handle' = Sent(handle, method, msg)
          ELSE /\ channels' = channels
               /\ handle' = [pc |-> "send", method |-> method, channel |-> c, msg |-> msg,
                             submitted |-> msg.seq,
                             dial_returned |-> handle.dial_returned]
    /\ UNCHANGED <<event_loop, swarm, maker>>

add_address == HandleSend("add_address", "add_address", Alice)
dial == \E p \in Peers : HandleSend("dial", "dial_alice", p)
request_amounts == HandleSend("request_amounts", "request_amounts", Alice)
send_message0 == HandleSend("send_message0", "send_msg0", Alice)
send_message1 == HandleSend("send_message1", "send_msg1", Alice)
send_message2 == HandleSend("send_message2", "send_msg2", Alice)
send_message3 == HandleSend("send_message3", "send_msg3", Alice)

\* a send that was suspended on a full channel goes through once there is room
HandleSendResumes ==
    /\ handle.pc = "send"
    /\ HasRoom(channels, handle.channel)
    /\ channels' = Put(channels, handle.channel, handle.msg)
    /\ handle' = Sent(handle, handle.method, handle.msg)
    /\ UNCHANGED <<event_loop, swarm, maker>>

\* Variant of dial_recv: a message about another peer is taken and dial goes on waiting.
dial_recv_matches_peer ==
    /\ handle.pc = "dial_recv"
    /\ channels["conn_established"] # <<>>
    /\ LET got == Head(channels["conn_established"]) IN
          handle' = IF got.peer_id = handle.msg.peer_id
                    THEN [pc |-> "idle", submitted |-> handle.submitted,
                          dial_returned |-> [kind |-> "Ok", peer_id |-> handle.msg.peer_id,
                                             seq |-> handle.msg.seq, got |-> got]]
                    ELSE handle
    /\ channels' = Take(channels, "conn_established")
    /\ UNCHANGED <<event_loop, swarm, maker>>

\* dial, after the send: `self.conn_established.recv().await`, then Ok(())
dial_recv ==
    /\ handle.pc = "dial_recv"
    /\ channels["conn_established"] # <<>>
    /\ LET got == Head(channels["conn_established"]) IN
          handle' = [pc |-> "idle", submitted |-> handle.submitted,
                     dial_returned |-> [kind |-> "Ok", peer_id |-> handle.msg.peer_id,
                                        seq |-> handle.msg.seq, got |-> got]]
    /\ channels' = Take(channels, "conn_established")
    /\ UNCHANGED <<event_loop, swarm, maker>>

\* recv_message0/1/2: `self.msgN.recv().await`
HandleRecv(c) ==
    /\ handle.pc = "idle"
    /\ channels[c] # <<>>
    /\ channels' = Take(channels, c)
    /\ UNCHANGED <<handle, event_loop, swarm, maker>>

recv_message0 == HandleRecv("msg0")
recv_message1 == HandleRecv("msg1")
recv_message2 == HandleRecv("msg2")

(***************************************************************************)
(* EventLoop::run.  The k-th event the swarm produces carries no k.        *)
(***************************************************************************)
SwarmOutEvents(k) ==
    {[kind |-> "ConnectionEstablished", peer_id |-> p, no |-> k] : p \in Peers}
    \cup {[kind |-> kind, no |-> k] :
              kind \in {"Amounts", "Message0", "Message1", "Message2", "Message3"}}

\* the event without its number
Seen(ev) ==
    IF ev.kind = "ConnectionEstablished"
    THEN [kind |-> ev.kind, peer_id |-> ev.peer_id]
    ELSE [kind |-> ev.kind]

\* Variant of LoopSend: a message that finds its channel full is dropped.
LoopSendDrops(chs, c, msg) ==
    /\ channels' = IF HasRoom(chs, c) THEN Put(chs, c, msg) ELSE chs
    /\ event_loop' = Selecting

\* `let _ = self.<c>.send(msg).await` of the loop, on the channels chs
LoopSend(chs, c, msg) ==
    IF HasRoom(chs, c)
    THEN channels' = Put(chs, c, msg) /\ event_loop' = Selecting
    ELSE channels' = chs /\ event_loop' = Sending(c, msg)

LoopSendResumes ==
    /\ event_loop.pc = "send"
    /\ HasRoom(channels, event_loop.channel)
    /\ channels' = Put(channels, event_loop.channel, event_loop.msg)
    /\ event_loop' = Selecting
    /\ UNCHANGED <<handle, swarm, maker>>

\* the branch of self.swarm.next()
LoopSwarmEvent ==
    /\ event_loop = Selecting
    /\ swarm.produced < MaxSwarmEvents
    /\ \E ev \in SwarmOutEvents(swarm.produced + 1) :
          /\ swarm' = [swarm EXCEPT !.produced = ev.no,
                                    !.last_event = Seen(ev),
                                    !.connected = IF ev.kind = "ConnectionEstablished"
                                                  THEN @ \cup {ev.peer_id} ELSE @]
          /\ CASE ev.kind = "ConnectionEstablished" ->
                      LoopSend(channels, "conn_established",
                               [peer_id |-> ev.peer_id, origin |-> "swarm", no |-> ev.no])
                [] ev.kind = "Message0" -> LoopSend(channels, "msg0", [no |-> ev.no])
                [] ev.kind = "Message1" -> LoopSend(channels, "msg1", [no |-> ev.no])
                [] ev.kind = "Message2" -> LoopSend(channels, "msg2", [no |-> ev.no])
                [] ev.kind \in {"Amounts", "Message3"} ->
                      UNCHANGED <<channels, event_loop>>
    /\ UNCHANGED <<handle, maker>>

\* the swarm after a call of method for the command cmd, which returned result
Called(sw, method, cmd, result) ==
    [sw EXCEPT !.last_call = [method |-> method, seq |-> cmd.seq, result |-> result]]

\* Variant of LoopCommand: select! goes on taking commands while a send is suspended.
LoopCommandWhileSending(c, method) ==
    /\ event_loop.pc \in {"select", "send"}
    /\ channels[c] # <<>>
    /\ channels' = Take(channels, c)
    /\ swarm' = Called(swarm, method, Head(channels[c]), "done")
    /\ UNCHANGED <<event_loop, handle, maker>>

\* the branches that pass a command on to the swarm
LoopCommand(c, method) ==
    /\ event_loop = Selecting
    /\ channels[c] # <<>>
    /\ channels' = Take(channels, c)
    /\ swarm' = Called(swarm, method, Head(channels[c]), "done")
    /\ UNCHANGED <<event_loop, handle, maker>>

LoopAddAddress == LoopCommand("add_address", "add_address")
LoopRequestAmounts == LoopCommand("request_amounts", "request_amounts")
LoopSendMsg0 == LoopCommand("send_msg0", "send_message0")
LoopSendMsg1 == LoopCommand("send_msg1", "send_message1")
LoopSendMsg2 == LoopCommand("send_msg2", "send_message2")
LoopSendMsg3 == LoopCommand("send_msg3", "send_message3")

\* Variant of LoopDialAlice: the swarm is asked to dial whether or not it is connected.
LoopDialAliceAlways ==
    /\ event_loop = Selecting
    /\ channels["dial_alice"] # <<>>
    /\ LET cmd == Head(channels["dial_alice"]) IN
          /\ IF is_connected(swarm, cmd.peer_id)
             THEN LoopSend(Take(channels, "dial_alice"), "conn_established",
                           [peer_id |-> cmd.peer_id, origin |-> "dial", no |-> cmd.seq])
             ELSE channels' = Take(channels, "dial_alice") /\ UNCHANGED event_loop
          /\ \E result \in {"Ok", "Err"} : swarm' = Called(swarm, "dial", cmd, result)
    /\ UNCHANGED <<handle, maker>>

\* Variant of LoopDialAlice: a failed Swarm::dial wakes the caller through conn_established.
LoopDialAliceReportsFailure ==
    /\ event_loop = Selecting
    /\ channels["dial_alice"] # <<>>
    /\ LET cmd == Head(channels["dial_alice"])
           answer == [peer_id |-> cmd.peer_id, origin |-> "dial", no |-> cmd.seq]
       IN
          IF is_connected(swarm, cmd.peer_id)
          THEN /\ LoopSend(Take(channels, "dial_alice"), "conn_established", answer)
               /\ UNCHANGED swarm
          ELSE \/ /\ swarm' = Called(swarm, "dial", cmd, "Ok")
                  /\ channels' = Take(channels, "dial_alice")
                  /\ UNCHANGED event_loop
               \/ /\ swarm' = Called(swarm, "dial", cmd, "Err")
                  /\ LoopSend(Take(channels, "dial_alice"), "conn_established", answer)
    /\ UNCHANGED <<handle, maker>>

\* the branch of self.dial_alice.next(); Swarm::dial returns Ok or an Err that is logged
LoopDialAlice ==
    /\ event_loop = Selecting
    /\ channels["dial_alice"] # <<>>
    /\ LET cmd == Head(channels["dial_alice"]) IN
          IF is_connected(swarm, cmd.peer_id)
          THEN /\ LoopSend(Take(channels, "dial_alice"), "conn_established",
                           [peer_id |-> cmd.peer_id, origin |-> "dial", no |-> cmd.seq])
               /\ UNCHANGED swarm
          ELSE /\ channels' = Take(channels, "dial_alice")
               /\ \E result \in {"Ok", "Err"} : swarm' = Called(swarm, "dial", cmd, result)
               /\ UNCHANGED event_loop
    /\ UNCHANGED <<handle, maker>>

InitBob == InitWith(1, MaxAmount - 1, TestnetConfig, FALSE, "p1")

NextBob ==
    \/ add_address
    \/ dial
    \/ request_amounts
    \/ send_message0
    \/ send_message1
    \/ send_message2
    \/ send_message3
    \/ HandleSendResumes
    \/ dial_recv
    \/ recv_message0
    \/ recv_message1
    \/ recv_message2
    \/ LoopSwarmEvent
    \/ LoopSendResumes
    \/ LoopAddAddress
    \/ LoopDialAlice
    \/ LoopRequestAmounts
    \/ LoopSendMsg0
    \/ LoopSendMsg1
    \/ LoopSendMsg2
    \/ LoopSendMsg3

SpecBob == InitBob /\ [][NextBob]_vars

(***************************************************************************)
(* Properties.                                                             *)
(***************************************************************************)
Completed == task.kind # "None" /\ task.pc = "completed"

\* every event the behaviour was given, delivered or still queued, in order
AllEvents == app_events \o behaviour.events

\* the places in AllEvents of the Completed / Error event of setup n
CompletionsOf(n) ==
    {i \in 1..Len(injected) : injected[i].setup = n /\ injected[i].type = "Completed"}

IsResponse(op) == op.op = "write" /\ op.msg = "SpotPriceResponse"
Responses == {i \in 1..Len(substream.ops) : IsResponse(substream.ops[i])}
Wrote(response) ==
    \E i \in Responses : substream.ops[i].response = response
WroteXmr ==
    \E i \in Responses : substream.ops[i].response.kind = "Xmr"
WroteAnError ==
    \E i \in Responses : substream.ops[i].response.kind = "Error"


\* the Completed / Error event of the current setup is ev, and it is the only one
SurfacedAs(ev) ==
    /\ Len(AllEvents) = Len(injected)
    /\ Cardinality(CompletionsOf(task.setup)) = 1
    /\ \A i \in CompletionsOf(task.setup) : AllEvents[i] = ev

ReadSpotPriceRequest == Read("SpotPriceRequest")

IsPrefix(s, t) == Len(s) <= Len(t) /\ \A i \in 1..Len(s) : s[i] = t[i]

ValidationFailed == observed.wallet = "replied" /\ ~observed.validated.ok

\* the blockchain networks the maker runs on
AsbNetwork ==
    [bitcoin |-> handler.env_config.bitcoin_network,
     monero |-> handler.env_config.monero_network]

(***************************************************************************)
(* C1  Linear progress.  A setup that ends in Ok has done exactly: read    *)
(* SpotPriceRequest, write SpotPriceResponse::Xmr, read M0, write M1, read *)
(* M2, write M3, read M4; and from the quote on, what a setup has done is  *)
(* always a prefix of that order.                                          *)
(***************************************************************************)
LinearOrder(xmr) ==
    <<ReadSpotPriceRequest, WriteResponse(ResponseXmr(xmr)), Read("Message0"),
      Write("Message1"), Read("Message2"), Write("Message3"), Read("Message4")>>

C1_LinearProgress ==
    /\ (Completed /\ task.result.ok) =>
          substream.ops = LinearOrder(task.result.value.state3.xmr)
    /\ WroteXmr => IsPrefix(substream.ops, LinearOrder(substream.ops[2].response.xmr))

C1_Witness == Completed /\ task.result.ok /\ Len(substream.ops) = 7

(***************************************************************************)
(* C2  First failure wins.  The result of the validation is the error of   *)
(* the first check that fails, in the order resume-only, network, minimum, *)
(* maximum, rate fetch, quote, balance, and Ok(xmr) when none fails; the   *)
(* three comparisons accept equality.                                      *)
(***************************************************************************)
FirstFailure(resume_only, asb, min_buy, max_buy, latest_rate, request, wallet_snapshot) ==
    LET btc == request.btc
        quote == IF latest_rate.ok THEN sell_quote(latest_rate.rate, btc)
                                   ELSE [ok |-> FALSE]
        xmr == IF quote.ok THEN quote.value ELSE 0
        checks ==
            << [passes |-> ~resume_only, error |-> ResumeOnlyMode],
               [passes |-> request.blockchain_network = asb,
                error |-> BlockchainNetworkMismatch(request.blockchain_network, asb)],
               [passes |-> btc >= min_buy, error |-> AmountBelowMinimum(min_buy, btc)],
               [passes |-> btc <= max_buy, error |-> AmountAboveMaximum(max_buy, btc)],
               [passes |-> latest_rate.ok, error |-> LatestRateFetchFailed],
               [passes |-> quote.ok, error |-> SellQuoteCalculationFailed],
               [passes |-> wallet_snapshot.balance >= xmr + wallet_snapshot.lock_fee,
                error |-> BalanceTooLow(wallet_snapshot.balance, btc)] >>
        failing == {i \in 1..7 : ~checks[i].passes}
    IN
    IF failing = {} THEN Ok(xmr)
    ELSE Err(checks[CHOOSE i \in failing : \A j \in failing : i <= j].error)

Validated == task.kind # "None" /\ task.pc \in {"write_xmr", "write_error"}

C2_FirstFailureWins ==
    Validated =>
        /\ task.validated = FirstFailure(handler.resume_only, AsbNetwork, handler.min_buy,
                                         handler.max_buy, task.latest_rate, task.request,
                                         task.wallet_snapshot)
        /\ task.validated.ok <=> task.pc = "write_xmr"

\* accepted with btc = min_buy = max_buy and balance = xmr + lock_fee
C2_Witness ==
    /\ Validated
    /\ task.validated.ok
    /\ task.request.btc = handler.min_buy
    /\ task.request.btc = handler.max_buy
    /\ task.wallet_snapshot.lock_fee = 1
    /\ task.wallet_snapshot.balance = task.validated.value + task.wallet_snapshot.lock_fee

(***************************************************************************)
(* C3  A failed validation.  As claimed: once the validation has failed    *)
(* with e, a finished setup has written exactly Error(e.to_error_response  *)
(* ()), has ended with e, and is surfaced as OutEvent::Error{peer_id, e}.  *)
(***************************************************************************)
C3_ErrorWrittenThenReturned ==
    (ValidationFailed /\ Completed) =>
        LET e == observed.validated.error IN
        /\ substream.ops = <<ReadSpotPriceRequest,
                             WriteResponse(ResponseError(to_error_response(e)))>>
        /\ task.result = Err(e)
        /\ SurfacedAs(OutError(peer_id, e))

(***************************************************************************)
(* C3, amended.  Once the validation has failed with e, the only thing the *)
(* task may write is Error(e.to_error_response()); if it is written the    *)
(* setup ends with e, and if it is not (the write failed, or the guard     *)
(* fired) the setup ends with Io or Timeout; the end is surfaced as        *)
(* OutEvent::Error with that error; no State0 exists and none of M0..M4 is *)
(* read or written.                                                        *)
(***************************************************************************)
C3_ValidationFailure ==
    ValidationFailed =>
        LET e == observed.validated.error
            written == <<ReadSpotPriceRequest,
                         WriteResponse(ResponseError(to_error_response(e)))>>
        IN
        /\ task.pc \in {"write_error", "completed"}
        /\ IF Completed
           THEN /\ ~task.result.ok
                /\ \/ substream.ops = written /\ task.result = Err(e)
                   \/ /\ substream.ops = <<ReadSpotPriceRequest>>
                      /\ task.result.error.kind \in {"Io", "Timeout"}
                /\ SurfacedAs(OutError(peer_id, task.result.error))
           ELSE substream.ops = <<ReadSpotPriceRequest>>

C3_Witness ==
    /\ ValidationFailed
    /\ Completed
    /\ observed.validated.error.kind = "BalanceTooLow"
    /\ task.result = observed.validated
    /\ Len(substream.ops) = 2
    /\ app_events # <<>>

(***************************************************************************)
(* C4  Initiated comes first.  Every Completed / Error given to the        *)
(* behaviour for a setup is preceded by the Initiated of that setup.       *)
(***************************************************************************)
C4_InitiatedBeforeCompleted ==
    \A i \in 1..Len(injected) :
        injected[i].type = "Completed" =>
            \E j \in 1..(i - 1) :
                injected[j].type = "Initiated" /\ injected[j].setup = injected[i].setup

(***************************************************************************)
(* C5  Timeout.  When the guard has fired, the setup has ended with        *)
(* Timeout{seconds: 60}, surfaced as OutEvent::Error, the substream is     *)
(* dropped and no SpotPriceResponse::Error is on the wire.                 *)
(***************************************************************************)
C5_GuardTimeout ==
    observed.guard =>
        /\ Completed
        /\ task.result = Err(Timeout(TimeoutSecs))
        /\ ~substream.open
        /\ ~WroteAnError
        /\ SurfacedAs(OutError(peer_id, Timeout(TimeoutSecs)))

\* the guard fired while the task was waiting for Message2
C5_Witness ==
    /\ observed.guard
    /\ Len(substream.ops) = 4
    /\ substream.ops[4] = Write("Message1")

(***************************************************************************)
(* C6  Wallet-snapshot timeout.  When the wait for the wallet snapshot has *)
(* failed, the setup has ended with WalletSnapshotFailed, no validation    *)
(* was run and nothing was written on the substream.                       *)
(***************************************************************************)
C6_WalletSnapshotFailed ==
    observed.wallet = "failed" =>
        /\ Completed
        /\ ~task.result.ok
        /\ task.result.error.kind = "WalletSnapshotFailed"
        /\ observed.validated = None
        /\ substream.ops = <<ReadSpotPriceRequest>>

C6_Witness ==
    /\ observed.wallet = "failed"
    /\ Completed
    /\ task.result = Err(WalletSnapshotFailed("timeout"))

(***************************************************************************)
(* C7  Resume-only.  As claimed: with resume_only set, every finished      *)
(* setup that read a SpotPriceRequest has written Error(NoSwapsAccepted).  *)
(***************************************************************************)
NoSwapsAccepted == ResponseError(to_error_response(ResumeOnlyMode))

C7_AlwaysAnswered ==
    (handler.resume_only /\ Completed /\ substream.ops # <<>>) => Wrote(NoSwapsAccepted)

(***************************************************************************)
(* C7, amended.  With resume_only set, every validation fails with         *)
(* ResumeOnlyMode whatever the request and the wallet snapshot; nothing    *)
(* but Error(NoSwapsAccepted) is ever written, and it has been written     *)
(* whenever the setup got its wallet snapshot and ended with neither Io    *)
(* nor Timeout.                                                            *)
(***************************************************************************)
C7_ResumeOnly ==
    handler.resume_only =>
        /\ observed.wallet = "replied" => observed.validated = Err(ResumeOnlyMode)
        /\ \A i \in 1..Len(substream.ops) :
              substream.ops[i] \in {ReadSpotPriceRequest, WriteResponse(NoSwapsAccepted)}
        /\ (Completed /\ observed.wallet = "replied"
                /\ task.result.error.kind \notin {"Io", "Timeout"}) =>
              /\ task.result = Err(ResumeOnlyMode)
              /\ substream.ops = <<ReadSpotPriceRequest, WriteResponse(NoSwapsAccepted)>>

C7_Witness ==
    /\ handler.resume_only
    /\ Completed
    /\ task.result = Err(ResumeOnlyMode)
    /\ Wrote(NoSwapsAccepted)

(***************************************************************************)
(* C8  One Completed per setup.  A setup in flight has no Completed /      *)
(* Error event; a finished one has exactly one, also after later polls of  *)
(* the handler: OutEvent::Completed{peer_id, swap_id, state3} for          *)
(* Ok((swap_id, state3)) and OutEvent::Error{peer_id, error} for           *)
(* Err(error), with the peer of the connection.                            *)
(***************************************************************************)
C8_OneCompleted ==
    /\ Len(AllEvents) = Len(injected)
    /\ task.kind # "None" =>
          IF Completed
          THEN SurfacedAs(IF task.result.ok
                          THEN OutCompleted(peer_id, task.result.value.swap_id,
                                            task.result.value.state3)
                          ELSE OutError(peer_id, task.result.error))
          ELSE CompletionsOf(task.setup) = {}

\* a successful setup, its event delivered, the handler polled again
C8_Witness ==
    /\ Completed
    /\ task.result.ok
    /\ panicked
    /\ peer_id = "p2"
    /\ app_events = <<OutCompleted("p2", "s2", task.result.value.state3)>>

(***************************************************************************)
(* C9  Keep-alive.  Until(creation + 5s) while no substream has been       *)
(* negotiated, Yes while the task is in flight, No once its result has     *)
(* been emitted, whatever the result.                                      *)
(***************************************************************************)
C9_KeepAlive ==
    /\ task.kind = "None" => handler.keep_alive = KeepAliveUntil(KeepAliveSecs)
    /\ (task.kind # "None" /\ task.pc # "completed") => handler.keep_alive = KeepAliveYes
    /\ Completed => handler.keep_alive = KeepAliveNo

C9_Witness ==
    /\ Completed
    /\ ~task.result.ok
    /\ task.result.error.kind = "WalletSnapshotFailed"
    /\ handler.keep_alive = KeepAliveNo

(***************************************************************************)
(* C10  Post-quote errors stay off the wire.  At most one SpotPriceResponse*)
(* is written per setup; once Xmr is written no Error is written, and a    *)
(* setup that fails after the quote ends with Io or Timeout, surfaced as   *)
(* OutEvent::Error.                                                        *)
(***************************************************************************)
C10_PostQuoteErrors ==
    /\ Cardinality(Responses) <= 1
    /\ WroteXmr =>
          /\ ~WroteAnError
          /\ (Completed /\ ~task.result.ok) =>
                /\ task.result.error.kind \in {"Io", "Timeout"}
                /\ SurfacedAs(OutError(peer_id, task.result.error))

C10_Witness ==
    /\ WroteXmr
    /\ Completed
    /\ task.result = Err(Io("receive_m2"))
    /\ Len(substream.ops) = 5

(***************************************************************************)
(* C11: to_error_response is total and is the reference mapping:           *)
(* ResumeOnlyMode gives NoSwapsAccepted; AmountBelowMinimum,               *)
(* AmountAboveMaximum and BlockchainNetworkMismatch give the wire variant  *)
(* of the same name with the same fields; BalanceTooLow{balance, buy}      *)
(* gives BalanceTooLow{buy}; every other Error gives Other.                *)
(***************************************************************************)
\* the wire variant of each Error variant, and the fields the wire variant carries
ReferenceVariant ==
    [ResumeOnlyMode |-> "NoSwapsAccepted",
     AmountBelowMinimum |-> "AmountBelowMinimum",
     AmountAboveMaximum |-> "AmountAboveMaximum",
     BlockchainNetworkMismatch |-> "BlockchainNetworkMismatch",
     BalanceTooLow |-> "BalanceTooLow",
     LatestRateFetchFailed |-> "Other",
     SellQuoteCalculationFailed |-> "Other",
     WalletSnapshotFailed |-> "Other",
     Timeout |-> "Other",
     Io |-> "Other"]

ReferenceFields ==
    [NoSwapsAccepted |-> {},
     AmountBelowMinimum |-> {"min", "buy"},
     AmountAboveMaximum |-> {"max", "buy"},
     BlockchainNetworkMismatch |-> {"cli", "asb"},
     BalanceTooLow |-> {"buy"},
     Other |-> {}]

IsReferenceResponse(e, r) ==
    /\ r.kind = ReferenceVariant[e.kind]
    /\ DOMAIN r = {"kind"} \cup ReferenceFields[r.kind]
    /\ \A f \in ReferenceFields[r.kind] : r[f] = e[f]

C11_ReferenceMapping ==
    conversion.response # None => IsReferenceResponse(conversion.error, conversion.response)

C11_Witness ==
    /\ conversion.error = BalanceTooLow(1, 2)
    /\ conversion.response = [kind |-> "BalanceTooLow", buy |-> 2]

(***************************************************************************)
(* C12: what a failing setup writes does not depend on the maker's         *)
(* internal context.  The error response a setup writes is determined by   *)
(* which check failed, the SpotPriceRequest and the maker's configuration  *)
(* (so two setups that agree on these write the same bytes, whatever the   *)
(* wallet balance); a setup that ends with Io, WalletSnapshotFailed or     *)
(* Timeout writes nothing in the step that fails; the balance appears only *)
(* in the OutEvent::Error of the behaviour.                                *)
(***************************************************************************)
\* the response of a failed check, from what the taker sent and the maker's settings
PublicErrorResponse(check, request, h) ==
    CASE check = "ResumeOnlyMode" -> [kind |-> "NoSwapsAccepted"]
      [] check = "AmountBelowMinimum" ->
            [kind |-> "AmountBelowMinimum", min |-> h.min_buy, buy |-> request.btc]
      [] check = "AmountAboveMaximum" ->
            [kind |-> "AmountAboveMaximum", max |-> h.max_buy, buy |-> request.btc]
      [] check = "BalanceTooLow" -> [kind |-> "BalanceTooLow", buy |-> request.btc]
      [] check = "BlockchainNetworkMismatch" ->
            [kind |-> "BlockchainNetworkMismatch", cli |-> request.blockchain_network,
             asb |-> [bitcoin |-> h.env_config.bitcoin_network,
                      monero |-> h.env_config.monero_network]]
      [] OTHER -> [kind |-> "Other"]

InternalFailures == {"Io", "WalletSnapshotFailed", "Timeout"}

IsWrite(op) == op.op = "write"
\* what went out on the substream, in order
Written(s) == SelectSeq(s.ops, IsWrite)

\* this step ends the current setup with an error
FailsNow ==
    /\ InFlight
    /\ Len(injected') = Len(injected) + 1
    /\ ~handler'.inbound_stream.result.ok

C12_WireIndependentOfContext ==
    [][/\ (At("write_error") /\ setups' = setups /\ substream'.ops # substream.ops) =>
             substream'.ops =
                 Append(substream.ops,
                        WriteResponse(ResponseError(
                            PublicErrorResponse(task.validated.error.kind, task.request,
                                                handler))))
       /\ (FailsNow /\ handler'.inbound_stream.result.error.kind \in InternalFailures) =>
             Written(substream') = Written(substream)]_vars

C12_Witness ==
    /\ Completed
    /\ task.result = Err(BalanceTooLow(1, 2))
    /\ Wrote(ResponseError([kind |-> "BalanceTooLow", buy |-> 2]))
    /\ SurfacedAs(OutError(peer_id, BalanceTooLow(1, 2)))

(***************************************************************************)
(* Helpers for the properties of the taker.                                *)
(***************************************************************************)
\* this step of the loop takes the oldest dial command
TakesDial == Len(channels'["dial_alice"]) < Len(channels["dial_alice"])
DialTaken == Head(channels["dial_alice"])

\* this step of the loop sends msg on c: it is put, or the loop is suspended with it
LoopSends(c, msg) ==
    \/ /\ channels'[c] = Append(channels[c], msg)
       /\ event_loop' = Selecting
    \/ /\ channels'[c] = channels[c]
       /\ Len(channels[c]) = ChannelCapacity
       /\ event_loop' = Sending(c, msg)

\* this step calls a method of the swarm
CallsSwarm == swarm'.last_call # swarm.last_call

(***************************************************************************)
(* C13: idempotent dial.  When the loop takes dial(p) and the swarm is     *)
(* connected to p, it sends p on conn_established (suspending if that      *)
(* channel is full) and calls no method of the swarm; and whenever the     *)
(* handle's dial leaves its recv, it has returned Ok.                      *)
(***************************************************************************)
C13_IdempotentDial ==
    [][/\ (TakesDial /\ is_connected(swarm, DialTaken.peer_id)) =>
             /\ ~CallsSwarm
             /\ swarm' = swarm
             /\ LoopSends("conn_established",
                          [peer_id |-> DialTaken.peer_id, origin |-> "dial",
                           no |-> DialTaken.seq])
       /\ (handle.pc = "dial_recv" /\ handle'.pc # "dial_recv") =>
             /\ handle'.pc = "idle"
             /\ handle'.dial_returned.kind = "Ok"
             /\ handle'.dial_returned.seq = handle.msg.seq]_vars

\* a second dial(p1) has returned Ok on the message the loop sent for it; the last
\* call on the swarm is still the Swarm::dial of the first, which connected it
C13_Witness ==
    /\ handle.dial_returned.kind = "Ok"
    /\ handle.dial_returned.peer_id = "p1"
    /\ handle.dial_returned.got = [peer_id |-> "p1", origin |-> "dial",
                                   no |-> handle.dial_returned.seq]
    /\ is_connected(swarm, "p1")
    /\ swarm.last_call = [method |-> "dial", seq |-> 1, result |-> "Ok"]
    /\ handle.dial_returned.seq = 2

(***************************************************************************)
(* C14: command ordering.  The commands one caller submits one after the   *)
(* other reach the swarm in the order of submission: every call of a       *)
(* method of the swarm is for a command submitted later than the command   *)
(* of the call before it.                                                  *)
(***************************************************************************)
C14_SubmissionOrder ==
    [][CallsSwarm => swarm'.last_call.seq > swarm.last_call.seq]_vars

(***************************************************************************)
(* C15: a dial failure is not surfaced.  As claimed: a caller whose        *)
(* Swarm::dial failed leaves dial only on a ConnectionEstablished event of *)
(* the swarm.                                                              *)
(***************************************************************************)
\* the caller is in dial, after its send, and the Swarm::dial for it has failed
DialFailed ==
    /\ handle.pc = "dial_recv"
    /\ swarm.last_call = [method |-> "dial", seq |-> handle.msg.seq, result |-> "Err"]

DialFails ==
    /\ CallsSwarm
    /\ swarm'.last_call.method = "dial"
    /\ swarm'.last_call.result = "Err"

\* this step of the loop starts a send on c
StartsSend(c) ==
    \/ Len(channels'[c]) > Len(channels[c]) /\ event_loop.pc # "send"
    \/ event_loop.pc # "send" /\ event_loop'.pc = "send" /\ event_loop'.channel = c

Submits == handle.pc = "idle" /\ handle'.submitted = handle.submitted + 1

C16_Backpressure ==
    /\ [](\A c \in ChannelNames : Len(channels[c]) <= ChannelCapacity)
    /\ [][/\ Submits =>
                \/ /\ handle'.pc = "send"
                   /\ handle'.msg.seq = handle'.submitted
                   /\ Len(channels[handle'.channel]) = ChannelCapacity
                   /\ channels' = channels
                \/ /\ handle'.pc # "send"
                   /\ \E c \in CommandChannels, p \in Peers :
                         /\ HasRoom(channels, c)
                         /\ channels' = Put(channels, c, [peer_id |-> p,
                                                          seq |-> handle'.submitted])
          /\ (handle.pc = "send" /\ handle' # handle) =>
                /\ HasRoom(channels, handle.channel)
                /\ channels' = Put(channels, handle.channel, handle.msg)
                /\ handle'.pc \in {"idle", "dial_recv"}
                /\ handle'.submitted = handle.submitted
          /\ \A c \in CommandChannels :
                Len(channels'[c]) < Len(channels[c]) =>
                    /\ event_loop = Selecting
                    /\ channels'[c] = Tail(channels[c])
                    /\ handle' = handle]_vars

\* the caller is suspended with its second command: the first still fills the channel
C16_Witness ==
    /\ handle.pc = "send"
    /\ handle.msg.seq = 2
    /\ Len(channels[handle.channel]) = ChannelCapacity
    /\ Head(channels[handle.channel]).seq = 1

(***************************************************************************)
(* C17: swarm event mapping.  Taking ConnectionEstablished(p) sends        *)
(* exactly one p on conn_established, taking Message0/1/2 exactly one      *)
(* payload on msg0/msg1/msg2, and nothing else; Amounts and Message3 send  *)
(* nothing and change neither a channel, the loop nor the caller.  A       *)
(* suspended send puts exactly its message.  Each channel to the handle    *)
(* holds the events of its kind in the order the swarm produced them, and  *)
(* the handle takes the oldest.                                            *)
(***************************************************************************)
TakesEvent == swarm'.produced = swarm.produced + 1

\* this step sends msg on c and touches no other channel to the handle
SendsOnly(c, msg) ==
    /\ LoopSends(c, msg)
    /\ \A d \in EventChannels \ {c} : channels'[d] = channels[d]

Forwarded(ev, no) ==
    CASE ev.kind = "ConnectionEstablished" ->
            SendsOnly("conn_established",
                      [peer_id |-> ev.peer_id, origin |-> "swarm", no |-> no])
      [] ev.kind = "Message0" -> SendsOnly("msg0", [no |-> no])
      [] ev.kind = "Message1" -> SendsOnly("msg1", [no |-> no])
      [] ev.kind = "Message2" -> SendsOnly("msg2", [no |-> no])
      [] ev.kind \in {"Amounts", "Message3"} ->
            channels' = channels /\ event_loop' = event_loop

\* the numbers of the swarm events on c, oldest first, the suspended send last
FromSwarm(msg) == "origin" \notin DOMAIN msg \/ msg.origin = "swarm"
OnTheWay(c) ==
    SelectSeq(IF event_loop.pc = "send" /\ event_loop.channel = c
              THEN Append(channels[c], event_loop.msg)
              ELSE channels[c],
              FromSwarm)
Increasing(q) == \A i \in 1..Len(q), j \in 1..Len(q) : i < j => q[i].no < q[j].no

C17_SwarmEventMapping ==
    /\ [](\A c \in EventChannels : Increasing(OnTheWay(c)))
    /\ [][/\ TakesEvent =>
                /\ Forwarded(swarm'.last_event, swarm'.produced)
                /\ \A c \in CommandChannels : channels'[c] = channels[c]
                /\ handle' = handle
          /\ (event_loop.pc = "send" /\ event_loop' # event_loop) =>
                /\ channels' = Put(channels, event_loop.channel, event_loop.msg)
                /\ event_loop' = Selecting
          /\ \A c \in EventChannels :
                Len(channels'[c]) < Len(channels[c]) =>
                    channels'[c] = Tail(channels[c])]_vars

\* two Message0 events: the first is on msg0, the send of the second is suspended
\* behind it
C17_Witness ==
    /\ swarm.last_event = [kind |-> "Message0"]
    /\ channels["msg0"] = <<[no |-> 1]>>
    /\ event_loop = Sending("msg0", [no |-> 2])

(***************************************************************************)
(* C18: the behaviour's event queue.  Every inject_event appends exactly   *)
(* one OutEvent: Initiated for Initiated, Completed for Completed(Ok),     *)
(* Error for Completed(Err), with the peer of the connection.  poll on a   *)
(* non-empty queue removes and returns the oldest event, poll on an empty  *)
(* queue changes nothing.  So the events returned, followed by the events  *)
(* queued, are always the events injected, one each, in order.             *)
(***************************************************************************)
ReferenceOutEvent(peer, event) ==
    IF event.type = "Initiated"
    THEN [type |-> "Initiated", send_wallet_snapshot |-> event.receiver]
    ELSE IF event.result.ok
         THEN [type |-> "Completed", peer_id |-> peer,
               swap_id |-> event.result.value.swap_id,
               state3 |-> event.result.value.state3]
         ELSE [type |-> "Error", peer_id |-> peer, error |-> event.result.error]

C18_EventQueue ==
    /\ [](/\ Len(AllEvents) = Len(injected)
          /\ \A i \in 1..Len(injected) :
                i <= Len(AllEvents) =>
                    AllEvents[i] = ReferenceOutEvent(injected[i].peer_id,
                                                     injected[i].event))
    /\ [][/\ injected' # injected =>
                /\ Len(behaviour'.events) = Len(behaviour.events) + 1
                /\ IsPrefix(behaviour.events, behaviour'.events)
                /\ app_events' = app_events
          /\ app_events' # app_events =>
                /\ behaviour.events # <<>>
                /\ app_events' = Append(app_events, Head(behaviour.events))
                /\ behaviour'.events = Tail(behaviour.events)
          /\ (behaviour.events = <<>> /\ injected' = injected) =>
                (behaviour' = behaviour /\ app_events' = app_events)]_vars

\* three events of three kinds from two connections: two returned, one still queued
C18_Witness ==
    /\ Len(app_events) = 2
    /\ Len(behaviour.events) = 1
    /\ app_events[1] = OutInitiated(1)
    /\ app_events[2] = OutError("p2", Timeout(TimeoutSecs))
    /\ behaviour.events[1].type = "Completed"
    /\ behaviour.events[1].peer_id = "p1"

(***************************************************************************)
(* C19: the wallet-snapshot rendezvous.  A setup asks for at most one      *)
(* snapshot, for the btc of the SpotPriceRequest, and only once that       *)
(* request has been read; nothing is validated and no SpotPriceResponse is *)
(* written before the reply; the balance check and State0::new use the     *)
(* values of the one snapshot that was replied.                            *)
(***************************************************************************)
Has(field) == task.kind # "None" /\ field \in DOMAIN task

C19_OneRequest ==
    /\ Len(observed.requests) <= 1
    /\ observed.requests # <<>> =>
          /\ substream.ops # <<>>
          /\ substream.ops[1] = ReadSpotPriceRequest
    /\ (InFlight /\ Has("request")) => observed.requests = <<task.request.btc>>
    /\ (observed.wallet = "none") = (observed.requests = <<>>)

C19_ReplyFirst ==
    observed.wallet # "replied" => (observed.validated = None /\ Responses = {})

C19_BalanceFromSnapshot ==
    (InFlight /\ Has("validated")) =>
        LET snapshot == task.wallet_snapshot IN
        /\ task.validated.ok =>
              snapshot.balance >= task.validated.value + snapshot.lock_fee
        /\ (~task.validated.ok /\ task.validated.error.kind = "BalanceTooLow") =>
              /\ task.validated.error.balance = snapshot.balance
              /\ task.validated.error.buy = task.request.btc

C19_WalletSnapshotRendezvous ==
    /\ [](C19_OneRequest /\ C19_ReplyFirst /\ C19_BalanceFromSnapshot)
    /\ [][/\ (observed.wallet # "replied" /\ observed'.wallet = "replied") =>
                /\ observed.wallet = "requested"
                /\ observed'.requests = observed.requests
                /\ substream' = substream
          /\ (At("write_xmr") /\ handler'.inbound_stream.pc = "read_m0") =>
                handler'.inbound_stream.state0 =
                    [btc |-> task.request.btc, xmr |-> task.validated.value,
                     redeem_address |-> task.wallet_snapshot.redeem_address]
          /\ (Has("wallet_snapshot") /\ handler'.inbound_stream.kind # "None"
                 /\ "wallet_snapshot" \in DOMAIN handler'.inbound_stream) =>
                handler'.inbound_stream.wallet_snapshot = task.wallet_snapshot]_vars

\* a setup for 2 btc: one request for 2, replied with a snapshot of address a2, quoted,
\* and its State0 holds a2
C19_Witness ==
    /\ At("read_m0")
    /\ observed.requests = <<2>>
    /\ observed.wallet = "replied"
    /\ task.state0 = [btc |-> 2, xmr |-> 2, redeem_address |-> "a2"]
    /\ WroteXmr

(***************************************************************************)
(* C20: a handler holds at most one setup task.  A substream negotiated    *)
(* while a task is in flight puts a fresh task in its place; the replaced  *)
(* task is dropped with its substream, and no Completed or Error event is  *)
(* ever emitted for the replaced setup.                                    *)
(***************************************************************************)
ReplacedSetups == {replaced[i].setup : i \in 1..Len(replaced)}

C20_NoEventForReplaced ==
    /\ \A i \in 1..Len(replaced) :
          /\ CompletionsOf(replaced[i].setup) = {}
          /\ ~replaced[i].substream_open
    /\ setups > 0 => (task.kind = "Some" /\ task.setup = setups)
    /\ \A n \in 1..setups : Cardinality(CompletionsOf(n)) <= 1
    /\ Cardinality({j \in 1..Len(AllEvents) : AllEvents[j].type \in {"Completed", "Error"}})
          = Cardinality({n \in 1..setups : CompletionsOf(n) # {}})

C20_TaskReplacement ==
    /\ []C20_NoEventForReplaced
    /\ [][(InFlight /\ setups' = setups + 1) =>
              /\ handler'.inbound_stream.setup = setups + 1
              /\ handler'.inbound_stream.pc = "read_request"
              /\ replaced' = Append(replaced, [setup |-> task.setup,
                                               substream_open |-> FALSE])
              /\ substream' = [open |-> TRUE, ops |-> <<>>]
              /\ injected' = injected
              /\ behaviour' = behaviour]_vars

\* setup 1 was replaced while it waited for the wallet snapshot; setup 2 has ended and
\* its event is the only one the behaviour was given
C20_Witness ==
    /\ replaced = <<[setup |-> 1, substream_open |-> FALSE]>>
    /\ Completed /\ task.setup = 2
    /\ [setup |-> 2, type |-> "Completed"] \in {injected[i] : i \in 1..Len(injected)}
    /\ CompletionsOf(1) = {}

(***************************************************************************)
(* C21: dial(p) returns Ok on the first message it takes from              *)
(* conn_established, whatever peer that message names.  A message left     *)
(* there by an earlier connection event or an earlier already-connected    *)
(* dial makes dial(p) return Ok with no connection to p confirmed.         *)
(***************************************************************************)
\* a message leaves conn_established while the caller is inside dial
DialReceives ==
    /\ handle.pc = "dial_recv"
    /\ Len(channels'["conn_established"]) < Len(channels["conn_established"])

C21_WitnessLeftByDial ==
    /\ handle.pc = "idle"
    /\ handle.dial_returned # None
    /\ handle.dial_returned.peer_id = "p2"
    /\ handle.dial_returned.got.peer_id = "p1"
    /\ handle.dial_returned.got.origin = "dial"
    /\ ~is_connected(swarm, "p2")

(***************************************************************************)
(* C22: the loop runs the selected branch to its end before it selects     *)
(* again.  While it is suspended in a send on a full channel to the handle *)
(* it takes no command and no swarm event; if the caller is at that moment *)
(* suspended in a send on a full command channel, neither ever moves.      *)
(***************************************************************************)
LoopSuspended == event_loop.pc = "send" /\ ~HasRoom(channels, event_loop.channel)
CallerSuspended == handle.pc = "send" /\ ~HasRoom(channels, handle.channel)
Deadlocked == LoopSuspended /\ CallerSuspended

C22_BranchRunsToCompletion ==
    /\ [](event_loop.pc = "send" => event_loop.channel \in EventChannels)
    /\ [][event_loop.pc = "send" =>
              /\ swarm' = swarm
              /\ \A c \in CommandChannels : Len(channels'[c]) >= Len(channels[c])
              /\ event_loop' # event_loop =>
                    /\ event_loop' = Selecting
                    /\ channels' = Put(channels, event_loop.channel, event_loop.msg)]_vars
    /\ [][Deadlocked => (Deadlocked' /\ handle' = handle /\ event_loop' = event_loop
                            /\ channels' = channels)]_vars

\* two Message0 events nobody received and two add_address commands nobody took: the
\* loop waits for room in msg0, the caller for room in add_address
C22_Witness ==
    /\ Deadlocked
    /\ event_loop.channel = "msg0"
    /\ handle.channel = "add_address"
    /\ ~ENABLED NextBob

(***************************************************************************)
(* C23: when the validation has failed with e and the write of             *)
(* SpotPriceResponse::Error fails, the setup ends with Error::Io of the    *)
(* write and not with e; the OutEvent::Error surfaced is the same whatever *)
(* check had failed.                                                       *)
(***************************************************************************)
\* the setup at write_error ends in this step, and not by the timeout guard
EndsAtErrorWrite ==
    /\ At("write_error")
    /\ setups' = setups
    /\ handler'.inbound_stream.pc = "completed"
    /\ observed'.guard = observed.guard

C23_WriteFailureMasksValidationError ==
    [][EndsAtErrorWrite =>
          LET e == task.validated.error
              result == handler'.inbound_stream.result
          IN
          /\ e.kind # "Io"
          /\ IF Written(substream') = Written(substream)
             THEN /\ result = Err(Io("write_error"))
                  /\ behaviour'.events =
                         Append(behaviour.events, OutError(peer_id, Io("write_error")))
             ELSE /\ result = Err(e)
                  /\ behaviour'.events = Append(behaviour.events, OutError(peer_id, e))
          /\ ~substream'.open]_vars

\* the balance was too low, the Error response could not be written: the setup ended
\* with Io and the application is given Error{Io}
C23_Witness ==
    /\ ValidationFailed
    /\ observed.validated.error.kind = "BalanceTooLow"
    /\ Completed
    /\ task.result = Err(Io("write_error"))
    /\ substream.ops = <<ReadSpotPriceRequest>>
    /\ AllEvents = <<OutError(peer_id, Io("write_error"))>>

(***************************************************************************)
(* C24: the rate of a setup is sampled once, when the substream is         *)
(* negotiated and before the SpotPriceRequest is read.  The quote and      *)
(* LatestRateFetchFailed both come from that sample, whatever the rate     *)
(* source reports later, and a failed sample is reported only when the     *)
(* resume-only, network, minimum and maximum checks pass.                  *)
(***************************************************************************)
C24_FromTheSample ==
    (InFlight /\ Has("validated")) =>
        LET sample == task.latest_rate
            btc == task.request.btc
        IN
        /\ task.validated = validate(handler.resume_only, handler.env_config,
                                     handler.min_buy, handler.max_buy, sample,
                                     task.request, task.wallet_snapshot)
        /\ task.validated.ok =>
              /\ sample.ok
              /\ sell_quote(sample.rate, btc) = Ok(task.validated.value)
        /\ (~task.validated.ok /\ task.validated.error.kind = "LatestRateFetchFailed") =>
              /\ ~sample.ok
              /\ ~handler.resume_only
              /\ task.request.blockchain_network = AsbNetwork
              /\ btc >= handler.min_buy
              /\ btc <= handler.max_buy

C24_RateSampledOnce ==
    /\ []C24_FromTheSample
    /\ [][/\ setups' = setups + 1 =>
                /\ handler'.inbound_stream.latest_rate = handler.latest_rate
                /\ handler'.inbound_stream.pc = "read_request"
                /\ substream'.ops = <<>>
          /\ (setups' = setups /\ Has("latest_rate")
                 /\ "latest_rate" \in DOMAIN handler'.inbound_stream) =>
                handler'.inbound_stream.latest_rate = task.latest_rate
          /\ handler'.latest_rate # handler.latest_rate =>
                /\ handler'.inbound_stream = handler.inbound_stream
                /\ substream' = substream
                /\ observed' = observed
                /\ behaviour' = behaviour]_vars

\* sampled at rate 1; the source has failed since; 2 btc are still quoted as 2 xmr
C24_Witness ==
    /\ At("write_xmr")
    /\ task.latest_rate = [ok |-> TRUE, rate |-> 1]
    /\ ~handler.latest_rate.ok
    /\ task.request.btc = 2
    /\ task.validated = Ok(2)

====
